---- MODULE Spec2Model ----
(***************************************************************************)
(* The adaptation registry of                                              *)
(* packages/core-plugin-api/src/adaptable-components/AdaptationProvider.tsx *)
(* (the revision with reset / excludePlugins / excludeComponents /         *)
(* exclude, lines 190-449).                                                *)
(*                                                                         *)
(* JavaScript objects have identity, so the model keeps a heap: every      *)
(* AdaptationMapValue object ({propsInterceptors, components}) lives at an *)
(* address of `heap`, and a Map holds addresses.  A Map is a sequence of   *)
(* [key, value] entries in insertion order, as a JavaScript Map is.  The   *)
(* two arrays of a value object are owned by that object alone (the code   *)
(* never stores one array in two objects), so they are part of the heap    *)
(* cell.  The elements pushed on the arrays ({component, adaptation} and   *)
(* {propsInterceptor, adaptation}) are never written after construction    *)
(* and are modelled as values.                                             *)
(***************************************************************************)
EXTENDS Integers, Sequences, FiniteSets, TLC

VARIABLES heap, registries, last

vars == <<heap, registries, last>>

----------------------------------------------------------------------------
(* Bounds of the model *)

\* Number of AdaptationProvider context values computed in one run of Spec.
MaxRegistries == 2
\* Number of props (of the five) one provider of Spec is given.
MaxProps == 2
\* Longest `adaptations` array handed to one provider of Spec.
MaxBatch == 2
\* Longest excludeComponents array of Spec.
MaxExcludeComponents == 2
\* Longest excludePlugins array and longest exclude array of Spec.
MaxExclude == 1
\* TreeSpec: more providers below one another, each given fewer props and
\* shorter arrays.
MaxTreeRegistries == 3
MaxTreeProps == 1
MaxTreeArray == 1

----------------------------------------------------------------------------
(* Values *)

\* JavaScript's undefined, for the optional fields of an adaptation.
Undefined == "undefined"

\* An optional prop is absent, one object, or an array.
Absent == [kind |-> "undefined", value |-> << >>]

One(v) == [kind |-> "single", value |-> <<v>>]

Many(s) == [kind |-> "array", value |-> s]

\* Array.isArray(x)
IsArray(x) == x.kind = "array"

\* JavaScript truthiness of an optional prop: objects and arrays (also the
\* empty array) are truthy, undefined is not.
Truthy(x) == x.kind # "undefined"

\* Array.isArray(x) ? x : [x]
AsArray(x) == IF IsArray(x) THEN x.value ELSE <<x.value[1]>>

Range(s) == {s[i] : i \in 1..Len(s)}

SeqsUpTo(S, n) == UNION {[1..k -> S] : k \in 0..n}

SubsetsUpTo(S, n) == {T \in SUBSET S : Cardinality(T) <= n}

----------------------------------------------------------------------------
(* Inputs: component refs, plugins and the adaptations plugins declare *)

RefX == [id |-> "X"]

RefY == [id |-> "Y"]

ComponentRefs == {RefX, RefY}

Plugins == {"P1", "P2"}

\* ComponentAdaptation objects.  `name` is the object's identity: two
\* adaptation objects may carry the same key.
AdA == [name |-> "AdA", key |-> "a", ref |-> RefX, plugin |-> "P1",
        spec |-> [Adaptation |-> "renderA", interceptProps |-> "interceptA"]]

AdB == [name |-> "AdB", key |-> "b", ref |-> RefX, plugin |-> "P2",
        spec |-> [Adaptation |-> "renderB", interceptProps |-> Undefined]]

\* A second adaptation object keyed "b" for the same ref, owned by no plugin.
AdB2 == [name |-> "AdB2", key |-> "b", ref |-> RefX, plugin |-> Undefined,
         spec |-> [Adaptation |-> "renderB2", interceptProps |-> "interceptB2"]]

\* Keyed "a" like AdA, but for another ref.
AdC == [name |-> "AdC", key |-> "a", ref |-> RefY, plugin |-> "P1",
        spec |-> [Adaptation |-> Undefined, interceptProps |-> "interceptC"]]

\* Neither a replacement nor a props interceptor.
AdM == [name |-> "AdM", key |-> "m", ref |-> RefY, plugin |-> "P2",
        spec |-> [Adaptation |-> Undefined, interceptProps |-> Undefined]]

AdaptationPool == {AdA, AdB, AdB2, AdC, AdM}

\* The props of one AdaptationProvider.  `reset` is the prop after its
\* default (reset = false); excludePlugins and exclude are arrays the code
\* only ever turns into Sets, and are given as sets.
PropsOf(ad, rs, xp, xc, ex) ==
    [adaptations |-> ad, reset |-> rs, excludePlugins |-> xp,
     excludeComponents |-> xc, exclude |-> ex]

GivenCount(p) ==
    (IF Truthy(p.adaptations) THEN 1 ELSE 0) + (IF p.reset THEN 1 ELSE 0)
    + (IF Truthy(p.excludePlugins) THEN 1 ELSE 0)
    + (IF Truthy(p.excludeComponents) THEN 1 ELSE 0)
    + (IF Truthy(p.exclude) THEN 1 ELSE 0)

AdaptationsInputs(maxBatch) ==
    {Absent} \cup {One(a) : a \in AdaptationPool}
             \cup {Many(s) : s \in SeqsUpTo(AdaptationPool, maxBatch)}

ExcludeComponentsInputs(maxExcludeComponents) ==
    {Absent} \cup {One(r) : r \in ComponentRefs}
             \cup {Many(s) : s \in SeqsUpTo(ComponentRefs, maxExcludeComponents)}

\* An absent array prop of the kind the code only reads as a Set.
AbsentSet == [kind |-> "undefined", value |-> {}]

ExcludePluginsInputs(maxExclude) ==
    {AbsentSet} \cup {Many(S) : S \in SubsetsUpTo(Plugins, maxExclude)}

ExcludeInputs(maxExclude) ==
    {AbsentSet} \cup {Many(S) : S \in SubsetsUpTo(AdaptationPool, maxExclude)}

NoProps == PropsOf(Absent, FALSE, AbsentSet, Absent, AbsentSet)

ProviderPropsSet(maxProps, maxBatch, maxExcludeComponents, maxExclude) ==
    {p \in [adaptations : AdaptationsInputs(maxBatch),
            reset : BOOLEAN,
            excludePlugins : ExcludePluginsInputs(maxExclude),
            excludeComponents : ExcludeComponentsInputs(maxExcludeComponents),
            exclude : ExcludeInputs(maxExclude)] : GivenCount(p) <= maxProps}

----------------------------------------------------------------------------
(* The heap and the Map *)

\* const noAdaptations = { propsInterceptors: [], components: [] }: the one
\* object allocated at module load, at the first address of the heap.
noAdaptations == 1

EmptyValue == [propsInterceptors |-> << >>, components |-> << >>]

\* Map.prototype.get: the value's address, or 0 for undefined.
MapGet(map, key) ==
    IF \E i \in 1..Len(map) : map[i].key = key
    THEN map[CHOOSE i \in 1..Len(map) : map[i].key = key].value
    ELSE 0

\* Map.prototype.delete
MapDelete(map, key) == SelectSeq(map, LAMBDA e : e.key # key)

\* Map.prototype.set of a key the map does not hold yet (the code's only use)
MapSet(map, key, value) == Append(map, [key |-> key, value |-> value])

\* A context value is undefined (no provider above) or {adaptationMap}.
NoContext == [defined |-> FALSE, adaptationMap |-> << >>]

ContextOf(map) == [defined |-> TRUE, adaptationMap |-> map]

----------------------------------------------------------------------------
(* The code.  An operator that allocates or writes takes the heap (and   *)
(* the Map being built) and returns them updated.                         *)

\* Variant: the Map is copied but its value objects are not (new Map(parent)),
\* so parent and child share them.
cloneAdaptationMapShallow(h, parent) ==
    [heap |-> h,
     map |-> IF parent.defined THEN parent.adaptationMap ELSE << >>]

\* cloneAdaptationMap: a new Map with, for every entry of the parent, a new
\* value object holding new arrays with the parent's elements.
cloneAdaptationMap(h, parent) ==
    LET entries == IF parent.defined THEN parent.adaptationMap ELSE << >>
        n == Len(entries)
    IN  [heap |-> h \o [i \in 1..n |->
                          [propsInterceptors |-> h[entries[i].value].propsInterceptors,
                           components |-> h[entries[i].value].components]],
         map |-> [i \in 1..n |-> [key |-> entries[i].key, value |-> Len(h) + i]]]

\* Variant: a key the Map does not hold is given the shared noAdaptations
\* object instead of a fresh one.
ensureMapValueShared(st, key) ==
    LET value == MapGet(st.map, key)
    IN  IF value # 0
        THEN [heap |-> st.heap, map |-> st.map, value |-> value]
        ELSE [heap |-> st.heap,
              map |-> MapSet(st.map, key, noAdaptations),
              value |-> noAdaptations]

\* ensureMapValue: the value object of `key`, allocated and set when the Map
\* has none.
ensureMapValue(st, key) ==
    LET value == MapGet(st.map, key)
    IN  IF value # 0
        THEN [heap |-> st.heap, map |-> st.map, value |-> value]
        ELSE [heap |-> Append(st.heap, EmptyValue),
              map |-> MapSet(st.map, key, Len(st.heap) + 1),
              value |-> Len(st.heap) + 1]

\* array.find(e => e.adaptation.key === key) is truthy
HasKey(list, key) == \E i \in 1..Len(list) : list[i].adaptation.key = key

\* Variant: no look for an element with the same key before a push.
appendAdaptationNoDedup(st, adaptation) ==
    LET e == ensureMapValue(st, adaptation.ref.id)
        value == e.heap[e.value]
        components ==
            IF adaptation.spec.Adaptation # Undefined
            THEN Append(value.components,
                        [component |-> adaptation.spec.Adaptation,
                         adaptation |-> adaptation])
            ELSE value.components
        propsInterceptors ==
            IF adaptation.spec.interceptProps # Undefined
            THEN Append(value.propsInterceptors,
                        [propsInterceptor |-> adaptation.spec.interceptProps,
                         adaptation |-> adaptation])
            ELSE value.propsInterceptors
    IN  [heap |-> [e.heap EXCEPT ![e.value] =
                      [propsInterceptors |-> propsInterceptors,
                       components |-> components]],
         map |-> e.map]

\* Variant: unshift in place of push.
appendAdaptationUnshift(st, adaptation) ==
    LET e == ensureMapValue(st, adaptation.ref.id)
        value == e.heap[e.value]
        components ==
            IF /\ adaptation.spec.Adaptation # Undefined
               /\ ~ HasKey(value.components, adaptation.key)
            THEN <<[component |-> adaptation.spec.Adaptation,
                    adaptation |-> adaptation]>> \o value.components
            ELSE value.components
        propsInterceptors ==
            IF /\ adaptation.spec.interceptProps # Undefined
               /\ ~ HasKey(value.propsInterceptors, adaptation.key)
            THEN <<[propsInterceptor |-> adaptation.spec.interceptProps,
                    adaptation |-> adaptation]>> \o value.propsInterceptors
            ELSE value.propsInterceptors
    IN  [heap |-> [e.heap EXCEPT ![e.value] =
                      [propsInterceptors |-> propsInterceptors,
                       components |-> components]],
         map |-> e.map]

\* Variant: no test of spec.Adaptation and spec.interceptProps before a push.
appendAdaptationUnchecked(st, adaptation) ==
    LET e == ensureMapValue(st, adaptation.ref.id)
        value == e.heap[e.value]
        components ==
            IF ~ HasKey(value.components, adaptation.key)
            THEN Append(value.components,
                        [component |-> adaptation.spec.Adaptation,
                         adaptation |-> adaptation])
            ELSE value.components
        propsInterceptors ==
            IF ~ HasKey(value.propsInterceptors, adaptation.key)
            THEN Append(value.propsInterceptors,
                        [propsInterceptor |-> adaptation.spec.interceptProps,
                         adaptation |-> adaptation])
            ELSE value.propsInterceptors
    IN  [heap |-> [e.heap EXCEPT ![e.value] =
                      [propsInterceptors |-> propsInterceptors,
                       components |-> components]],
         map |-> e.map]

\* The callback of adaptations.forEach in appendAdaptationMap.
appendAdaptation(st, adaptation) ==
    LET e == ensureMapValue(st, adaptation.ref.id)
        value == e.heap[e.value]
        components ==
            IF /\ adaptation.spec.Adaptation # Undefined
               /\ ~ HasKey(value.components, adaptation.key)
            THEN Append(value.components,
                        [component |-> adaptation.spec.Adaptation,
                         adaptation |-> adaptation])
            ELSE value.components
        propsInterceptors ==
            IF /\ adaptation.spec.interceptProps # Undefined
               /\ ~ HasKey(value.propsInterceptors, adaptation.key)
            THEN Append(value.propsInterceptors,
                        [propsInterceptor |-> adaptation.spec.interceptProps,
                         adaptation |-> adaptation])
            ELSE value.propsInterceptors
    IN  [heap |-> [e.heap EXCEPT ![e.value] =
                      [propsInterceptors |-> propsInterceptors,
                       components |-> components]],
         map |-> e.map]

RECURSIVE appendAdaptationMap(_, _)
\* appendAdaptationMap: the adaptations in array order.
appendAdaptationMap(st, adaptations) ==
    IF adaptations = << >>
    THEN st
    ELSE appendAdaptationMap(appendAdaptation(st, Head(adaptations)),
                             Tail(adaptations))

\* Variant: adaptationMap.delete(ref), the ref object where the Map is keyed
\* by ref.id: no key ever matches.
deleteComponentsByRef(map, excludeComponentRefs) == map

RECURSIVE deleteComponents(_, _)
\* excludeComponentRefs.forEach(ref => adaptationMap.delete(ref.id))
deleteComponents(map, excludeComponentRefs) ==
    IF excludeComponentRefs = << >>
    THEN map
    ELSE deleteComponents(MapDelete(map, Head(excludeComponentRefs).id),
                          Tail(excludeComponentRefs))

\* The two filters applied to value.components.
filterComponents(components, excludePluginsSet, excludeSet) ==
    SelectSeq(SelectSeq(components,
                        LAMBDA c : \/ c.adaptation.plugin = Undefined
                                   \/ c.adaptation.plugin \notin excludePluginsSet),
              LAMBDA c : c.adaptation.key \notin excludeSet)

\* Variant: the filters applied to value.propsInterceptors as well.
excludeFromValuesBothLists(st, excludePluginsSet, excludeSet) ==
    LET values == {st.map[i].value : i \in 1..Len(st.map)}
    IN  [heap |-> [a \in DOMAIN st.heap |->
                     IF a \in values
                     THEN [propsInterceptors |->
                              filterComponents(st.heap[a].propsInterceptors,
                                               excludePluginsSet, excludeSet),
                           components |->
                              filterComponents(st.heap[a].components,
                                               excludePluginsSet, excludeSet)]
                     ELSE st.heap[a]],
         map |-> st.map]

\* [...adaptationMap.values()].forEach(value => { value.components = ... })
excludeFromValues(st, excludePluginsSet, excludeSet) ==
    LET values == {st.map[i].value : i \in 1..Len(st.map)}
    IN  [heap |-> [a \in DOMAIN st.heap |->
                     IF a \in values
                     THEN [st.heap[a] EXCEPT !.components =
                              filterComponents(@, excludePluginsSet, excludeSet)]
                     ELSE st.heap[a]],
         map |-> st.map]

\* Variant: the reset prop is not read.
contextValueNoReset(h, parentContext, props) ==
    LET cloned == cloneAdaptationMap(h, parentContext)
        deleted ==
            IF Truthy(props.excludeComponents)
            THEN [heap |-> cloned.heap,
                  map |-> deleteComponents(cloned.map,
                                           AsArray(props.excludeComponents))]
            ELSE cloned
        excluded ==
            IF Truthy(props.excludePlugins) \/ Truthy(props.exclude)
            THEN excludeFromValues(deleted,
                     IF Truthy(props.excludePlugins)
                     THEN props.excludePlugins.value ELSE {},
                     IF Truthy(props.exclude)
                     THEN {e.key : e \in props.exclude.value} ELSE {})
            ELSE deleted
        appended ==
            IF Truthy(props.adaptations)
            THEN appendAdaptationMap(excluded, AsArray(props.adaptations))
            ELSE excluded
    IN  [heap |-> appended.heap, adaptationMap |-> appended.map]

\* Variant: the adaptations appended before the plugin and key exclusion.
contextValueAppendFirst(h, parentContext, props) ==
    LET cloned == IF props.reset
                  THEN cloneAdaptationMap(h, NoContext)
                  ELSE cloneAdaptationMap(h, parentContext)
        deleted ==
            IF Truthy(props.excludeComponents)
            THEN [heap |-> cloned.heap,
                  map |-> deleteComponents(cloned.map,
                                           AsArray(props.excludeComponents))]
            ELSE cloned
        appended ==
            IF Truthy(props.adaptations)
            THEN appendAdaptationMap(deleted, AsArray(props.adaptations))
            ELSE deleted
        excluded ==
            IF Truthy(props.excludePlugins) \/ Truthy(props.exclude)
            THEN excludeFromValues(appended,
                     IF Truthy(props.excludePlugins)
                     THEN props.excludePlugins.value ELSE {},
                     IF Truthy(props.exclude)
                     THEN {e.key : e \in props.exclude.value} ELSE {})
            ELSE appended
    IN  [heap |-> excluded.heap, adaptationMap |-> excluded.map]

\* The useMemo callback of AdaptationProvider: the provider's context value.
contextValue(h, parentContext, props) ==
    LET cloned == IF props.reset
                  THEN cloneAdaptationMap(h, NoContext)
                  ELSE cloneAdaptationMap(h, parentContext)
        deleted ==
            IF Truthy(props.excludeComponents)
            THEN [heap |-> cloned.heap,
                  map |-> deleteComponents(cloned.map,
                                           AsArray(props.excludeComponents))]
            ELSE cloned
        excluded ==
            IF Truthy(props.excludePlugins) \/ Truthy(props.exclude)
            THEN excludeFromValues(deleted,
                     IF Truthy(props.excludePlugins)
                     THEN props.excludePlugins.value ELSE {},
                     IF Truthy(props.exclude)
                     THEN {e.key : e \in props.exclude.value} ELSE {})
            ELSE deleted
        appended ==
            IF Truthy(props.adaptations)
            THEN appendAdaptationMap(excluded, AsArray(props.adaptations))
            ELSE excluded
    IN  [heap |-> appended.heap, adaptationMap |-> appended.map]

\* useComponentAdaptations: adaptationMap?.get(componentRef.id) ?? noAdaptations
useComponentAdaptations(context, componentRef) ==
    LET value == IF context.defined
                 THEN MapGet(context.adaptationMap, componentRef.id)
                 ELSE 0
    IN  IF value # 0 THEN value ELSE noAdaptations

----------------------------------------------------------------------------
(* The state machine *)
(*                                                                         *)
(* registries[i] is the context value the i-th rendered provider published *)
(* ({adaptationMap}) together with the provider it was rendered below      *)
(* (parent, 0 at the root of the tree).  `last` records the operation that *)
(* led to the state: its inputs, what the parent context answered before   *)
(* it ran, and its result.                                                 *)

\* The context a provider or a consumer below provider c reads; 0 is a
\* place with no AdaptationProvider above it.
ContextAt(c) ==
    IF c = 0 THEN NoContext ELSE ContextOf(registries[c].adaptationMap)

\* What a consumer below provider c is handed for every component ref.
Answers(c) ==
    [r \in ComponentRefs |-> heap[useComponentAdaptations(ContextAt(c), r)]]

\* Where the next provider may be rendered: below any provider rendered so
\* far or at the root, while the run may still grow.
Parents(max) == IF Len(registries) < max THEN 0..Len(registries) ELSE {}

Init ==
    /\ heap = <<EmptyValue>>
    /\ registries = << >>
    /\ last = [op |-> "init", registry |-> 0, props |-> NoProps,
               ref |-> RefX, before |-> Answers(0), result |-> 0]

\* An AdaptationProvider is rendered below provider p (or at the root) and
\* publishes its context value.
AdaptationProvider(p, props, max) ==
    /\ Len(registries) < max
    /\ LET cv == contextValue(heap, ContextAt(p), props)
       IN  /\ heap' = cv.heap
           /\ registries' = Append(registries,
                                   [parent |-> p, adaptationMap |-> cv.adaptationMap])
    /\ last' = [op |-> "provide", registry |-> p, props |-> props,
                ref |-> RefX, before |-> Answers(p),
                result |-> Len(registries) + 1]

\* A consumer below provider c reads the adaptations of componentRef.
UseComponentAdaptations(c, componentRef) ==
    /\ last' = [op |-> "lookup", registry |-> c, props |-> NoProps,
                ref |-> componentRef, before |-> Answers(c),
                result |-> useComponentAdaptations(ContextAt(c), componentRef)]
    /\ UNCHANGED <<heap, registries>>

SpecProps ==
    ProviderPropsSet(MaxProps, MaxBatch, MaxExcludeComponents, MaxExclude)

Next ==
    \/ \E p \in Parents(MaxRegistries) : \E props \in SpecProps :
          AdaptationProvider(p, props, MaxRegistries)
    \/ \E c \in 0..Len(registries) : \E r \in ComponentRefs :
          UseComponentAdaptations(c, r)

Spec == Init /\ [][Next]_vars

TreeProps ==
    ProviderPropsSet(MaxTreeProps, MaxTreeArray, MaxTreeArray, MaxTreeArray)

TreeNext ==
    \/ \E p \in Parents(MaxTreeRegistries) : \E props \in TreeProps :
          AdaptationProvider(p, props, MaxTreeRegistries)
    \/ \E c \in 0..Len(registries) : \E r \in ComponentRefs :
          UseComponentAdaptations(c, r)

TreeSpec == Init /\ [][TreeNext]_vars

----------------------------------------------------------------------------
(* Vocabulary of the properties *)

\* The state was reached by rendering a provider.
Provided == last.op = "provide"

\* The props of that provider, and its adaptations as an array.
Given == last.props

Batch == IF Truthy(Given.adaptations) THEN AsArray(Given.adaptations) ELSE << >>

\* What lookup answers for ref r on the provider's result, and what it
\* answered on the provider's parent before the provider ran.
After(r) == Answers(last.result)[r]

Before(r) == last.before[r]

\* The Map of the provider's result holds an entry for r.
HasEntry(c, r) ==
    \E i \in 1..Len(registries[c].adaptationMap) :
        registries[c].adaptationMap[i].key = r.id

\* The excluded refs, plugins and adaptation keys of the provider.
ExcludedRefs ==
    IF Truthy(Given.excludeComponents)
    THEN Range(AsArray(Given.excludeComponents)) ELSE {}

ExcludedPlugins ==
    IF Truthy(Given.excludePlugins) THEN Given.excludePlugins.value ELSE {}

ExcludedKeys ==
    IF Truthy(Given.exclude) THEN {e.key : e \in Given.exclude.value} ELSE {}

\* An element is owned by an excluded plugin or carries an excluded key.
Excluded(e) ==
    \/ e.adaptation.plugin \in ExcludedPlugins
    \/ e.adaptation.key \in ExcludedKeys

\* The element a declared adaptation contributes to each list.
ComponentOf(a) == [component |-> a.spec.Adaptation, adaptation |-> a]

InterceptorOf(a) == [propsInterceptor |-> a.spec.interceptProps, adaptation |-> a]

Keys(list) == {list[i].adaptation.key : i \in 1..Len(list)}

RECURSIVE IsSubsequence(_, _)
\* s is t with some elements left out, the others in t's order.
IsSubsequence(s, t) ==
    IF s = << >> THEN TRUE
    ELSE IF t = << >> THEN FALSE
    ELSE IF Head(s) = Head(t) THEN IsSubsequence(Tail(s), Tail(t))
    ELSE IsSubsequence(s, Tail(t))

\* What the provider inherits for ref r: nothing after a reset or for an
\* excluded ref; otherwise the parent's components without the excluded
\* ones, and the parent's propsInterceptors.
InheritedComponents(r) ==
    IF Given.reset \/ r \in ExcludedRefs
    THEN << >>
    ELSE SelectSeq(Before(r).components, LAMBDA e : ~ Excluded(e))

InheritedInterceptors(r) ==
    IF Given.reset \/ r \in ExcludedRefs
    THEN << >>
    ELSE Before(r).propsInterceptors

\* Batch[j] declares a replacement (an interceptor) for ref r.
DeclaresComponent(j, r) ==
    Batch[j].ref = r /\ Batch[j].spec.Adaptation # Undefined

DeclaresInterceptor(j, r) ==
    Batch[j].ref = r /\ Batch[j].spec.interceptProps # Undefined

NoDuplicateKeys(list) ==
    \A i, j \in 1..Len(list) :
        list[i].adaptation.key = list[j].adaptation.key => i = j

\* Only the given props are given (the others are absent, reset is false).
OnlyGiven(names) ==
    /\ Truthy(Given.adaptations) => "adaptations" \in names
    /\ Given.reset => "reset" \in names
    /\ Truthy(Given.excludePlugins) => "excludePlugins" \in names
    /\ Truthy(Given.excludeComponents) => "excludeComponents" \in names
    /\ Truthy(Given.exclude) => "exclude" \in names

\* The address lookup answers for ref r on the provider's result.
AfterObject(r) == useComponentAdaptations(ContextAt(last.result), r)

----------------------------------------------------------------------------
(* C1 *)

\* C1: rendering a provider never mutates a context value published before:
\* for every provider rendered so far (the new provider's parent, its
\* siblings and its ancestors) and every ref, the lookup answers the same
\* value object with the same propsInterceptors and components, element for
\* element, after the step as before it, and the provider's Map is the same.
C1_ParentNeverMutated ==
    [][\A c \in 1..Len(registries) :
          /\ registries'[c] = registries[c]
          /\ \A r \in ComponentRefs :
                /\ useComponentAdaptations(ContextAt(c), r)'
                      = useComponentAdaptations(ContextAt(c), r)
                /\ Answers(c)'[r] = Answers(c)[r]]_vars

\* A grandchild has just been rendered: provider 3 below provider 2 below
\* provider 1, each answering differently for X, and the grandparent still
\* answers with elements of its own.
C1_Witness ==
    /\ Provided
    /\ Len(registries) = 3
    /\ registries[2].parent = 1
    /\ registries[3].parent = 2
    /\ Answers(1)[RefX].components # << >>
    /\ Answers(2)[RefX] # Answers(1)[RefX]
    /\ Answers(3)[RefX] # Answers(2)[RefX]
    /\ Answers(3)[RefX] # Answers(1)[RefX]

----------------------------------------------------------------------------
(* C2 *)

\* C2: in every context value, for every ref, neither list holds two
\* elements whose adaptations have the same key; and after a provider ran,
\* every element of a list is the first one declared with its key: the
\* inherited element when the inherited list held the key, and otherwise the
\* element of the first adaptation of the batch that declares it.
C2_OneElementPerKeyFirstWins ==
    /\ \A c \in 1..Len(registries) : \A r \in ComponentRefs :
          /\ NoDuplicateKeys(Answers(c)[r].components)
          /\ NoDuplicateKeys(Answers(c)[r].propsInterceptors)
    /\ Provided => \A r \in ComponentRefs :
          /\ \A i \in 1..Len(After(r).components) :
                LET e == After(r).components[i]
                IN  IF e.adaptation.key \in Keys(InheritedComponents(r))
                    THEN e \in Range(InheritedComponents(r))
                    ELSE \E j \in 1..Len(Batch) :
                            /\ DeclaresComponent(j, r)
                            /\ e = ComponentOf(Batch[j])
                            /\ \A k \in 1..(j - 1) :
                                  ~ (DeclaresComponent(k, r)
                                     /\ Batch[k].key = Batch[j].key)
          /\ \A i \in 1..Len(After(r).propsInterceptors) :
                LET e == After(r).propsInterceptors[i]
                IN  IF e.adaptation.key \in Keys(InheritedInterceptors(r))
                    THEN e \in Range(InheritedInterceptors(r))
                    ELSE \E j \in 1..Len(Batch) :
                            /\ DeclaresInterceptor(j, r)
                            /\ e = InterceptorOf(Batch[j])
                            /\ \A k \in 1..(j - 1) :
                                  ~ (DeclaresInterceptor(k, r)
                                     /\ Batch[k].key = Batch[j].key)

\* A provider was given AdB2 (key "b", ref X) below a provider whose X
\* already holds AdB (key "b"), and a batch that declares key "b" twice for
\* the interceptors: the inherited replacement and the earlier interceptor
\* are the ones in the result.
C2_Witness ==
    /\ Provided
    /\ last.registry # 0
    /\ ComponentOf(AdB) \in Range(Before(RefX).components)
    /\ Len(Batch) = 2
    /\ Batch[1].key = "b" /\ Batch[2].key = "b"
    /\ Batch[1] # Batch[2]
    /\ AdB2 \in Range(Batch)
    /\ ComponentOf(AdB) \in Range(After(RefX).components)
    /\ ComponentOf(AdB2) \notin Range(After(RefX).components)

----------------------------------------------------------------------------
(* C3 *)

\* C3: after a provider ran, each list of each ref is a run of elements of
\* the parent's list in the parent's order, followed by a run of elements
\* of the batch's adaptations in the batch's order; and a batch [A, B] of
\* two replacements with distinct keys for a ref nothing is inherited for
\* gives components = [A, B].
C3_InsertionOrder ==
    Provided => \A r \in ComponentRefs :
        /\ \E n \in 0..Len(After(r).components) :
              /\ IsSubsequence(SubSeq(After(r).components, 1, n),
                               Before(r).components)
              /\ IsSubsequence(SubSeq(After(r).components, n + 1,
                                      Len(After(r).components)),
                               [j \in 1..Len(Batch) |-> ComponentOf(Batch[j])])
        /\ \E n \in 0..Len(After(r).propsInterceptors) :
              /\ IsSubsequence(SubSeq(After(r).propsInterceptors, 1, n),
                               Before(r).propsInterceptors)
              /\ IsSubsequence(SubSeq(After(r).propsInterceptors, n + 1,
                                      Len(After(r).propsInterceptors)),
                               [j \in 1..Len(Batch) |-> InterceptorOf(Batch[j])])
        /\ ( /\ InheritedComponents(r) = << >>
             /\ Len(Batch) = 2
             /\ DeclaresComponent(1, r) /\ DeclaresComponent(2, r)
             /\ Batch[1].key # Batch[2].key )
           => After(r).components
                 = <<ComponentOf(Batch[1]), ComponentOf(Batch[2])>>

\* Below a provider whose X holds the replacement of AdA, the batch
\* [AdB, AdA] was given: X's components are [AdA, AdB], the inherited one
\* first although the batch lists it last.
C3_Witness ==
    /\ Provided
    /\ last.registry # 0
    /\ Before(RefX).components = <<ComponentOf(AdA)>>
    /\ Batch = <<AdB, AdA>>
    /\ After(RefX).components = <<ComponentOf(AdA), ComponentOf(AdB)>>

----------------------------------------------------------------------------
(* C4 *)

\* The provider of the example: excludePlugins [P1] and one new adaptation
\* keyed "b" for X, below a provider whose X holds a (plugin P1) and b
\* (plugin P2).
C4_Example ==
    /\ Provided
    /\ Before(RefX).components = <<ComponentOf(AdA), ComponentOf(AdB)>>
    /\ OnlyGiven({"excludePlugins", "adaptations"})
    /\ ExcludedPlugins = {"P1"}
    /\ Batch = <<AdB2>>

\* C4: the props act in the order reset, excludeComponents, excludePlugins
\* and exclude, adaptations.  Each list of the result starts with what is
\* inherited (the exclusions applied to the parent's elements only); what
\* follows comes from the batch and carries no key of an inherited
\* element; and every replacement (interceptor) the batch declares has its
\* key in the list, whatever the exclusions name.  In the example the
\* components of X are exactly the inherited b.
C4_OptionOrder ==
    /\ Provided => \A r \in ComponentRefs :
          LET c == After(r).components
              ic == InheritedComponents(r)
              p == After(r).propsInterceptors
              ip == InheritedInterceptors(r)
          IN  /\ Len(c) >= Len(ic)
              /\ SubSeq(c, 1, Len(ic)) = ic
              /\ \A i \in (Len(ic) + 1)..Len(c) :
                    /\ c[i].adaptation \in Range(Batch)
                    /\ c[i].adaptation.key \notin Keys(ic)
              /\ \A j \in 1..Len(Batch) :
                    DeclaresComponent(j, r) => Batch[j].key \in Keys(c)
              /\ Len(p) >= Len(ip)
              /\ SubSeq(p, 1, Len(ip)) = ip
              /\ \A i \in (Len(ip) + 1)..Len(p) :
                    /\ p[i].adaptation \in Range(Batch)
                    /\ p[i].adaptation.key \notin Keys(ip)
              /\ \A j \in 1..Len(Batch) :
                    DeclaresInterceptor(j, r) => Batch[j].key \in Keys(p)
    /\ C4_Example => After(RefX).components = <<ComponentOf(AdB)>>

\* The example happened.
C4_Witness ==
    /\ C4_Example
    /\ After(RefX).components = <<ComponentOf(AdB)>>

----------------------------------------------------------------------------
(* C5 *)

----------------------------------------------------------------------------
(* C6 *)

\* C6: after a provider given excludePlugins and exclude (and no
\* adaptations, so that all it publishes is inherited), no list of any ref
\* holds an element owned by an excluded plugin or carrying the key of an
\* excluded adaptation: neither a replacement nor a props interceptor.
C6_ExclusionRemovesEveryElement ==
    ( /\ Provided
      /\ OnlyGiven({"excludePlugins", "exclude"}) )
    => \A r \in ComponentRefs :
          /\ \A i \in 1..Len(After(r).components) :
                ~ Excluded(After(r).components[i])
          /\ \A i \in 1..Len(After(r).propsInterceptors) :
                ~ Excluded(After(r).propsInterceptors[i])

----------------------------------------------------------------------------
(* C7 *)

\* C7: after a provider given only excludeComponents, lookup answers the
\* noAdaptations object for every excluded ref, the result holds no entry
\* for it, and for every other ref the result answers the same lists as the
\* parent did and holds an entry exactly when the parent does.
C7_ExcludeComponentsRemovesEntry ==
    ( /\ Provided
      /\ OnlyGiven({"excludeComponents"})
      /\ Truthy(Given.excludeComponents) )
    => \A r \in ComponentRefs :
          IF r \in ExcludedRefs
          THEN /\ AfterObject(r) = noAdaptations
               /\ After(r) = EmptyValue
               /\ ~ HasEntry(last.result, r)
          ELSE /\ After(r) = Before(r)
               /\ HasEntry(last.result, r)
                     <=> (last.registry # 0 /\ HasEntry(last.registry, r))

\* X was excluded below a provider whose X holds a replacement and an
\* interceptor and whose Y holds an interceptor: X is gone, Y is as before.
C7_Witness ==
    /\ Provided
    /\ OnlyGiven({"excludeComponents"})
    /\ ExcludedRefs = {RefX}
    /\ Before(RefX).components # << >>
    /\ Before(RefX).propsInterceptors # << >>
    /\ Before(RefY).propsInterceptors # << >>
    /\ AfterObject(RefX) = noAdaptations
    /\ After(RefY) = Before(RefY)

----------------------------------------------------------------------------
(* C8 *)

\* C8: after a provider given reset, every element of every list comes
\* from an adaptation of the provider's own batch; given no adaptations,
\* lookup answers the noAdaptations object for every ref.
C8_ResetClearsInheritance ==
    ( Provided /\ Given.reset )
    => /\ \A r \in ComponentRefs :
             /\ \A i \in 1..Len(After(r).components) :
                   After(r).components[i].adaptation \in Range(Batch)
             /\ \A i \in 1..Len(After(r).propsInterceptors) :
                   After(r).propsInterceptors[i].adaptation \in Range(Batch)
       /\ ~ Truthy(Given.adaptations) =>
             \A r \in ComponentRefs : AfterObject(r) = noAdaptations

\* reset was given together with adaptations for Y below a provider whose X
\* holds a replacement and an interceptor: X answers noAdaptations.
C8_Witness ==
    /\ Provided
    /\ Given.reset
    /\ Before(RefX).components # << >>
    /\ Before(RefX).propsInterceptors # << >>
    /\ AfterObject(RefX) = noAdaptations
    /\ After(RefY).propsInterceptors # << >>

----------------------------------------------------------------------------
(* C9 *)

\* C9: a lookup answers the entry of the ref when the context's Map holds
\* one, and otherwise (no entry, or no context at all) the one noAdaptations
\* object; that object's two lists are empty in every reachable state.
C9_MissIsTheEmptySingleton ==
    /\ heap[noAdaptations] = [propsInterceptors |-> << >>, components |-> << >>]
    /\ last.op = "lookup" =>
          IF last.registry # 0 /\ HasEntry(last.registry, last.ref)
          THEN /\ last.result # noAdaptations
               /\ \E i \in 1..Len(registries[last.registry].adaptationMap) :
                     registries[last.registry].adaptationMap[i]
                        = [key |-> last.ref.id, value |-> last.result]
          ELSE last.result = noAdaptations

\* A miss on a provider whose Map holds an entry with elements for the other
\* ref, after three providers were rendered.
C9_Witness ==
    /\ last.op = "lookup"
    /\ last.registry # 0
    /\ Len(registries) = 3
    /\ ~ HasEntry(last.registry, last.ref)
    /\ last.result = noAdaptations
    /\ \E r \in ComponentRefs :
          /\ HasEntry(last.registry, r)
          /\ Answers(last.registry)[r].propsInterceptors # << >>

----------------------------------------------------------------------------
(* C10 *)

\* An adaptation with neither a replacement nor a props interceptor.
Malformed(a) ==
    a.spec.Adaptation = Undefined /\ a.spec.interceptProps = Undefined

\* The provider's props with the j-th adaptation of the batch left out.
GivenWithout(j) ==
    [Given EXCEPT !.adaptations =
        IF IsArray(@)
        THEN Many(SubSeq(@.value, 1, j - 1) \o SubSeq(@.value, j + 1, Len(@.value)))
        ELSE Absent]

\* The context value of the same provider with those props.
Without(j) == contextValue(heap, ContextAt(last.registry), GivenWithout(j))

WithoutAnswer(j, r) ==
    Without(j).heap[useComponentAdaptations(ContextOf(Without(j).adaptationMap), r)]

EntryKeys(map) == {map[i].key : i \in 1..Len(map)}

\* C10 as stated: with a malformed adaptation m in the batch, the result
\* holds entries for the same refs, and the same lists per ref, as the
\* result of the same provider with m left out.
C10_MalformedAddsNoEntry ==
    Provided => \A j \in 1..Len(Batch) :
        Malformed(Batch[j]) =>
            /\ EntryKeys(registries[last.result].adaptationMap)
                  = EntryKeys(Without(j).adaptationMap)
            /\ \A r \in ComponentRefs : After(r) = WithoutAnswer(j, r)

\* C10 amended: a malformed adaptation m contributes no element: for every
\* ref lookup answers the same two lists as on the result of the same
\* provider with m left out; the refs with an entry are those of that
\* result and m's target ref, which is given an entry even when nothing
\* else declares one for it.
C10_MalformedAddsNoElement ==
    Provided => \A j \in 1..Len(Batch) :
        Malformed(Batch[j]) =>
            /\ EntryKeys(registries[last.result].adaptationMap)
                  = EntryKeys(Without(j).adaptationMap) \cup {Batch[j].ref.id}
            /\ \A r \in ComponentRefs : After(r) = WithoutAnswer(j, r)

\* The malformed AdM (ref Y) was given in a batch with AdA (ref X) where
\* nothing else has an entry for Y: Y has an entry of its own with two
\* empty lists, which is not the noAdaptations object.
C10_Witness ==
    /\ Provided
    /\ Batch = <<AdA, AdM>>
    /\ last.registry = 0 \/ ~ HasEntry(last.registry, RefY)
    /\ HasEntry(last.result, RefY)
    /\ AfterObject(RefY) # noAdaptations
    /\ After(RefY) = EmptyValue
    /\ After(RefX).components # << >>

====
